---- MODULE Spec2Model ----
(***************************************************************************)
(* Model of dark_mode_server/server.py: the class-level semaphore of       *)
(* DarkModeHTTPHandler, the per-connection request lifecycle               *)
(* (handle_one_request), the routing in do_GET / handle_file_or_dir and    *)
(* the error handlers around the response writers.                         *)
(*                                                                         *)
(* A request path "/a/b" is the sequence <<"a","b">>; "/" is <<>>.         *)
(* A filesystem location is the sequence of names from the filesystem      *)
(* root, so the serving directory /srv is <<"srv">>.                       *)
(***************************************************************************)
EXTENDS Integers, Sequences, FiniteSets, TLC

\* server.py:13 sets 100; the model runs the same gate with a small maximum.
MAX_CONCURRENT_REQUESTS == 2

\* Number of connection threads of the ThreadingHTTPServer that are followed.
NumConn == 3

Conns == 1..NumConn

\* Connections followed through every request path and every fault.
ReqConns == {c \in Conns : c <= 2}

VARIABLES
    sem,               \* DarkModeHTTPHandler.semaphore: free slots
    pc,                \* position of each connection thread
    req,               \* request line sent by the client, not yet read
    res,               \* what do_GET did for the request being handled
    close_connection,  \* self.close_connection of each handler
    log,               \* level of the record handle_one_request logged
    raised,            \* exception that left handle_one_request
    nreq,              \* requests read on the connection
    acq,               \* semaphore acquisitions of the connection
    rel,               \* semaphore releases of the connection
    ncomp,             \* completions (finally clause) of the connection
    dirc,              \* children of the directory being listed, as enumerated
    lst                \* progress of one run of send_directory_listing

vars == <<sem, pc, req, res, close_connection, log, raised, nreq, acq, rel, ncomp,
          dirc, lst>>

----------------------------------------------------------------------------
(* The filesystem the server runs on. *)

base_path == <<"srv">>

Dirs == { <<>>, <<"srv">>, <<"srv", "sub">>, <<"etc">> }

Files == { <<"srv", "a.txt">>, <<"srv", "sub", "b.txt">>, <<"etc", "pw">>,
           <<"srv", "tcpstates">> }

NoNode == <<"?">>

Parent(n) == IF n = <<>> THEN <<>> ELSE SubSeq(n, 1, Len(n) - 1)

\* The location the operating system reaches from directory cur by the
\* names in segs; ".." goes to the parent, a name under a non-directory or a
\* name that does not exist reaches nothing.
RECURSIVE Walk(_, _)
Walk(cur, segs) ==
    IF segs = <<>> THEN cur
    ELSE IF cur \notin Dirs THEN NoNode
    ELSE IF Head(segs) = ".." THEN Walk(Parent(cur), Tail(segs))
    ELSE IF Append(cur, Head(segs)) \in Dirs \cup Files
         THEN Walk(Append(cur, Head(segs)), Tail(segs))
         ELSE NoNode

\* path = self.base_path / self.path.lstrip('/') : a lexical join, ".." kept.
Join(p) == base_path \o p

exists(path) == Walk(<<>>, path) # NoNode

is_dir(path) == Walk(<<>>, path) \in Dirs

\* posixpath.normpath of a request path: a name followed by ".." cancels
\* out, and ".." at the top is dropped.
RECURSIVE normpath(_, _)
normpath(done, segs) ==
    IF segs = <<>> THEN done
    ELSE IF Head(segs) = ".."
         THEN normpath(IF done = <<>> THEN <<>> ELSE SubSeq(done, 1, Len(done) - 1), Tail(segs))
         ELSE normpath(Append(done, Head(segs)), Tail(segs))

\* SimpleHTTPRequestHandler.translate_path: the normalised request path
\* under the serving directory.
translate_path(p) == base_path \o normpath(<<>>, p)

Within(n) == Len(n) >= Len(base_path) /\ SubSeq(n, 1, Len(base_path)) = base_path

----------------------------------------------------------------------------
(* Requests and faults. *)

tcpstates == <<"tcpstates">>

RequestPaths ==
    { <<>>, <<"sub">>, <<"a.txt">>, <<"sub", "b.txt">>, <<"nope">>,
      tcpstates, <<"tcpstates", "x">>,
      <<"..">>, <<"sub", "..", "..">>, <<"..", "etc">>, <<"..", "etc", "pw">>,
      <<"sub", "..">>, <<"a.txt", "..">> }

NoReq == <<"-">>

\* Where the handling of one request goes wrong: errAt is the point at which
\* an internal failure is raised, brokenFrom the first write that finds the
\* client gone (every later write finds it gone too).
StageNo == [headers |-> 1, body |-> 2, reply |-> 3, never |-> 4]

Faults == [errAt : {"none", "prepare", "body"},
           brokenFrom : {"headers", "body", "reply", "never"}]

Wrote(f, stage) == StageNo[stage] < StageNo[f.brokenFrom]

\* One response started by send_response / send_error: hdr and body tell
\* whether the status line with headers, and the body, reached the socket;
\* lost tells that a write of it found the client gone.
Attempt(code, msg, hdr, body, lost) ==
    [code |-> code, msg |-> msg, hdr |-> hdr, body |-> body, lost |-> lost]

\* What a piece of handler code did: the responses it started, the exception
\* it ended with, and whether an internal failure was raised in it.
Outcome(resp, exc, failed) == [resp |-> resp, exc |-> exc, failed |-> failed]

\* fsops lists the filesystem calls made for the request, in order.
Result(route, target, served, o) ==
    [route |-> route, target |-> target, served |-> served,
     resp |-> o.resp, exc |-> o.exc, failed |-> o.failed, fsops |-> <<>>]

WithOps(r, ops) == [r EXCEPT !.fsops = ops \o @]

NoRes == [path |-> NoReq, route |-> "none", target |-> NoNode, served |-> NoNode,
          resp |-> <<>>, exc |-> "none", failed |-> FALSE, fsops |-> <<>>]

\* BaseHTTPRequestHandler.send_error: status line and headers in one write
\* (stage hstage), the error page in a second one (stage bstage).
send_error(code, msg, f, hstage, bstage) ==
    IF ~Wrote(f, hstage)
    THEN Outcome(<<Attempt(code, msg, FALSE, FALSE, TRUE)>>, "disconnect", FALSE)
    ELSE IF ~Wrote(f, bstage)
    THEN Outcome(<<Attempt(code, msg, TRUE, FALSE, TRUE)>>, "disconnect", FALSE)
    ELSE Outcome(<<Attempt(code, msg, TRUE, TRUE, FALSE)>>, "none", FALSE)

\* Preparing a document, then send_response(code) with headers and
\* end_headers, then wfile.write of the document (server.py:108-119 and
\* 137-185, and the transfer of the base class).
send_document(code, msg, f) ==
    IF f.errAt = "prepare"
    THEN Outcome(<<>>, "error", TRUE)
    ELSE IF ~Wrote(f, "headers")
    THEN Outcome(<<Attempt(code, msg, FALSE, FALSE, TRUE)>>, "disconnect", FALSE)
    ELSE IF f.errAt = "body"
    THEN Outcome(<<Attempt(code, msg, TRUE, FALSE, FALSE)>>, "error", TRUE)
    ELSE IF ~Wrote(f, "body")
    THEN Outcome(<<Attempt(code, msg, TRUE, FALSE, TRUE)>>, "disconnect", FALSE)
    ELSE Outcome(<<Attempt(code, msg, TRUE, TRUE, FALSE)>>, "none", FALSE)

\* An "except Exception as e: self.send_error(500, ...)" handler around the
\* code that produced o (server.py:103-104 and 187-188).
except_Exception(o, msg, f) ==
    IF o.exc = "none" THEN o
    ELSE LET e == send_error(500, msg, f, "reply", "reply") IN
         Outcome(o.resp \o e.resp, e.exc, o.failed)

\* handle_api (server.py:106-119).
handle_api(f) ==
    Result("Status", NoNode, NoNode, send_document(200, "json", f))

\* send_directory_listing (server.py:134-188): what is listed is what the
\* operating system reaches by path; any Exception of the try block is
\* answered with 500 "Directory listing failed".
send_directory_listing(path, f) ==
    LET dir == Walk(<<>>, path)
        o == except_Exception(send_document(200, "html", f), "Directory listing failed", f)
    IN WithOps(Result("Directory", dir, IF o.exc = "none" /\ ~o.failed THEN dir ELSE NoNode, o),
               <<"iterdir", "stat">>)

\* super().do_GET() (server.py:132): the file transfer of
\* SimpleHTTPRequestHandler, which serves translate_path(self.path).
file_transfer(p, target, f) ==
    LET t == translate_path(p)
        code == IF t \in Files THEN 200 ELSE IF t \in Dirs THEN 301 ELSE 404
        o == send_document(code, "file", f)
    IN WithOps(Result("File", target, IF t \in Files /\ o.exc = "none" THEN t ELSE NoNode, o),
               <<"open">>)

\* handle_file_or_dir (server.py:121-132).
handle_file_or_dir(p, f) ==
    LET path == Join(p) IN
    IF ~exists(path)
    THEN WithOps(Result("NotFound", NoNode, NoNode,
                        send_error(404, "Not Found", f, "headers", "body")),
                 <<"exists">>)
    ELSE IF is_dir(path)
    THEN WithOps(send_directory_listing(path, f), <<"exists", "is_dir">>)
    ELSE WithOps(file_transfer(p, Walk(<<>>, path), f), <<"exists", "is_dir">>)

\* do_GET that takes every path under /tcpstates for the status endpoint.
do_GET_prefix(p, f) ==
    LET r == IF p # <<>> /\ Head(p) = "tcpstates" THEN handle_api(f)
             ELSE handle_file_or_dir(p, f) IN
    WithOps(Result(r.route, r.target, r.served, except_Exception(r, "Server error", f)),
            r.fsops)

\* do_GET without its except clause.
do_GET_no_except(p, f) ==
    IF p = tcpstates THEN handle_api(f) ELSE handle_file_or_dir(p, f)

\* do_GET that resolves the path in the filesystem before it looks at it.
do_GET_resolve_first(p, f) ==
    LET r == IF p = tcpstates THEN WithOps(handle_api(f), <<"exists">>)
             ELSE handle_file_or_dir(p, f) IN
    WithOps(Result(r.route, r.target, r.served, except_Exception(r, "Server error", f)),
            r.fsops)

\* do_GET (server.py:96-104): route, and answer 500 "Server error" to any
\* Exception the route raises.
do_GET(p, f) ==
    LET r == IF p = tcpstates THEN handle_api(f) ELSE handle_file_or_dir(p, f) IN
    WithOps(Result(r.route, r.target, r.served, except_Exception(r, "Server error", f)),
            r.fsops)

WithPath(p, r) ==
    [path |-> p, route |-> r.route, target |-> r.target, served |-> r.served,
     resp |-> r.resp, exc |-> r.exc, failed |-> r.failed, fsops |-> r.fsops]

----------------------------------------------------------------------------
(* The directory listing.  A name is the sequence of the code points of    *)
(* its characters: <<66>> is "B", <<97>> is "a", <<233>> is "e" with an    *)
(* acute accent, <<97, 66>> is "aB".                                       *)

\* Largest number of children of a listed directory.
MaxChildren == 2

Names == { <<66>>, <<97>>, <<97, 66>>, <<233>> }

Sizes == {0, 10, 768, 1000, 2048}

Entries == {[kind |-> "dir", size |-> 0]} \cup {[kind |-> "file", size |-> z] : z \in Sizes}

DirContents ==
    UNION { [S -> Entries] : S \in {T \in SUBSET Names : Cardinality(T) <= MaxChildren} }

NoChildren == [n \in {} |-> [kind |-> "dir", size |-> 0]]

\* Request paths of directories.
ListPaths == { <<>>, <<"sub">>, <<"sub", "..">> }

\* The orders in which path.iterdir() may yield the children.
Orders(S) ==
    {q \in [1..Cardinality(S) -> S] : \A i, j \in 1..Cardinality(S) : i # j => q[i] # q[j]}

\* a < b for Python strings: the first differing code point decides, a
\* proper prefix is smaller.
RECURSIVE NameLess(_, _)
NameLess(a, b) ==
    IF b = <<>> THEN FALSE
    ELSE IF a = <<>> THEN TRUE
    ELSE IF Head(a) # Head(b) THEN Head(a) < Head(b)
    ELSE NameLess(Tail(a), Tail(b))

\* Insertion of x into the ascending sequence q.
RECURSIVE Insert(_, _)
Insert(x, q) ==
    IF q = <<>> THEN <<x>>
    ELSE IF NameLess(x, Head(q)) THEN <<x>> \o q
    ELSE <<Head(q)>> \o Insert(x, Tail(q))

\* sorted() that puts the directories before the files.
RECURSIVE sorted_dirs_first(_)
sorted_dirs_first(q) ==
    LET InsertK(x, r) ==
            LET less(a, b) == IF dirc[a].kind # dirc[b].kind THEN dirc[a].kind = "dir"
                              ELSE NameLess(a, b)
                pos == Cardinality({i \in DOMAIN r : less(r[i], x)})
            IN SubSeq(r, 1, pos) \o <<x>> \o SubSeq(r, pos + 1, Len(r))
    IN IF q = <<>> THEN <<>> ELSE InsertK(Head(q), sorted_dirs_first(Tail(q)))

\* sorted(path.iterdir()) (server.py:145).
RECURSIVE sorted(_)
sorted(q) == IF q = <<>> THEN <<>> ELSE Insert(Head(q), sorted(Tail(q)))

\* A size label: "-" (kind "dash"), or whole "." frac " KB" with places
\* decimal places (none for "0 KB").
Label(kind, whole, frac, places) ==
    [kind |-> kind, whole |-> whole, frac |-> frac, places |-> places]

Dash == Label("dash", 0, 0, 0)

\* size/1024 in tenths, cut off instead of rounded.
TenthsFloor(size) == (size * 10) \div 1024

\* size/1024 in tenths as the format ".1f" rounds it: to the nearest tenth,
\* a tie to the even one (size/1024 is exact in binary).
Tenths(size) ==
    LET q == (size * 10) \div 1024
        r == (size * 10) % 1024
    IN IF r > 512 \/ (r = 512 /\ q % 2 = 1) THEN q + 1 ELSE q

\* f"{size/1024:.1f} KB" if size > 0 else "0 KB" (server.py:149).
size_label(size) ==
    IF size > 0 THEN Label("kb", Tenths(size) \div 10, Tenths(size) % 10, 1)
    ELSE Label("kb", 0, 0, 0)

\* One entry of items (server.py:142, 147, 150).
Item(name, kind, size) == [name |-> name, kind |-> kind, size |-> size]

ParentItem == Item(<<46, 46, 47>>, "Parent Directory", Dash)

item_of(n, e) ==
    IF e.kind = "dir" THEN Item(Append(n, 47), "Directory", Dash)
    ELSE Item(n, "File", size_label(e.size))

\* path != self.base_path (server.py:141): a comparison of the joined paths
\* as written, not of the directories they lead to.
has_parent_link(path) == path # base_path

\* The characters of the document that vary with the listing (server.py:
\* 153-179): each item's name in its href and in its text; the markup around
\* them, all ASCII, is stood for by one character per piece.
RECURSIVE Html(_)
Html(items) ==
    IF items = <<>> THEN <<60, 62>>
    ELSE <<60>> \o Head(items).name \o <<62>> \o Head(items).name \o <<10>> \o Html(Tail(items))

\* Bytes of one code point in UTF-8.
utf8len(cp) == IF cp < 128 THEN 1 ELSE IF cp < 2048 THEN 2 ELSE IF cp < 65536 THEN 3 ELSE 4

\* len(text.encode('utf-8')).
RECURSIVE encoded_len(_)
encoded_len(text) ==
    IF text = <<>> THEN 0 ELSE utf8len(Head(text)) + encoded_len(Tail(text))

NoFault == [errAt |-> "none", brokenFrom |-> "never"]

NoListing ==
    [stage |-> "off", path |-> NoReq, todo |-> <<>>, items |-> <<>>, gone |-> {},
     resp |-> <<>>, failed |-> FALSE, clen |-> 0, blen |-> 0]

cvars == <<sem, pc, req, res, close_connection, log, raised, nreq, acq, rel, ncomp>>

\* A listing that starts its 200 response before it reads the directory.
EnumerateStreaming ==
    /\ lst.stage = "start"
    /\ \E q \in Orders(DOMAIN dirc) :
          lst' = [lst EXCEPT !.stage = "listing",
                             !.todo = sorted(q),
                             !.items = IF has_parent_link(Join(lst.path))
                                       THEN <<ParentItem>> ELSE <<>>,
                             !.resp = <<Attempt(200, "html", TRUE, FALSE, FALSE)>>]
    /\ UNCHANGED <<cvars, dirc>>

\* send_directory_listing up to the loop (server.py:137-145): the parent
\* link, and the children in the order of sorted(path.iterdir()).
Enumerate ==
    /\ lst.stage = "start"
    /\ \E q \in Orders(DOMAIN dirc) :
          lst' = [lst EXCEPT !.stage = "listing",
                             !.todo = sorted(q),
                             !.items = IF has_parent_link(Join(lst.path))
                                       THEN <<ParentItem>> ELSE <<>>]
    /\ UNCHANGED <<cvars, dirc>>

\* path.iterdir() raises (the directory is gone or unreadable); the except
\* clause answers 500 (server.py:145, 187-188).
EnumerateFails ==
    /\ lst.stage = "start"
    /\ lst' = [lst EXCEPT !.stage = "done", !.failed = TRUE,
                          !.resp = @ \o send_error(500, "Directory listing failed",
                                                   NoFault, "reply", "reply").resp]
    /\ UNCHANGED <<cvars, dirc>>

\* Another process removes a child while the listing is on its way.
Remove(n) ==
    /\ lst.stage = "listing"
    /\ n \in DOMAIN dirc \ lst.gone
    /\ lst' = [lst EXCEPT !.gone = @ \cup {n}]
    /\ UNCHANGED <<cvars, dirc>>

\* One round of the loop (server.py:146-150): is_dir and stat of the next
\* child.  For a child that is gone is_dir is false and stat raises, which
\* the except clause answers with 500 (server.py:187-188).
StatChild ==
    /\ lst.stage = "listing"
    /\ lst.todo # <<>>
    /\ LET n == Head(lst.todo) IN
       IF n \in lst.gone
       THEN lst' = [lst EXCEPT !.stage = "done", !.failed = TRUE,
                               !.resp = @ \o send_error(500, "Directory listing failed",
                                                        NoFault, "reply", "reply").resp]
       ELSE lst' = [lst EXCEPT !.todo = Tail(@),
                               !.items = Append(@, item_of(n, dirc[n]))]
    /\ UNCHANGED <<cvars, dirc>>

\* The document and the response (server.py:153-185): Content-Length is
\* len(html), the body is html.encode('utf-8').
Send ==
    /\ lst.stage = "listing"
    /\ lst.todo = <<>>
    /\ lst' = [lst EXCEPT !.stage = "done",
                          !.clen = Len(Html(lst.items)),
                          !.blen = encoded_len(Html(lst.items)),
                          !.resp = @ \o <<Attempt(200, "html", TRUE, TRUE, FALSE)>>]
    /\ UNCHANGED <<cvars, dirc>>

ListInit ==
    /\ sem = MAX_CONCURRENT_REQUESTS
    /\ pc = [c \in Conns |-> "idle"]
    /\ req = [c \in Conns |-> NoReq]
    /\ res = [c \in Conns |-> NoRes]
    /\ close_connection = [c \in Conns |-> TRUE]
    /\ log = [c \in Conns |-> "none"]
    /\ raised = [c \in Conns |-> "none"]
    /\ nreq = [c \in Conns |-> 0]
    /\ acq = [c \in Conns |-> 0]
    /\ rel = [c \in Conns |-> 0]
    /\ ncomp = [c \in Conns |-> 0]
    /\ dirc \in DirContents
    /\ \E p \in ListPaths : lst = [NoListing EXCEPT !.stage = "start", !.path = p]

ListNext ==
    \/ Enumerate
    \/ EnumerateFails
    \/ \E n \in Names : Remove(n)
    \/ StatChild
    \/ Send

\* One run of send_directory_listing on every directory content and every
\* directory path of the model.
ListSpec == ListInit /\ [][ListNext]_vars

----------------------------------------------------------------------------
(* The connection threads. *)

Init ==
    /\ sem = MAX_CONCURRENT_REQUESTS
    /\ pc = [c \in Conns |-> "idle"]
    /\ req = [c \in Conns |-> NoReq]
    /\ res = [c \in Conns |-> NoRes]
    /\ close_connection = [c \in Conns |-> TRUE]
    /\ log = [c \in Conns |-> "none"]
    /\ raised = [c \in Conns |-> "none"]
    /\ nreq = [c \in Conns |-> 0]
    /\ acq = [c \in Conns |-> 0]
    /\ rel = [c \in Conns |-> 0]
    /\ ncomp = [c \in Conns |-> 0]
    /\ dirc = NoChildren
    /\ lst = NoListing

\* The listener accepts a connection and starts its thread;
\* BaseHTTPRequestHandler.handle sets close_connection and calls
\* handle_one_request, which arrives at "with self.semaphore".
Accept(c) ==
    /\ pc[c] = "idle"
    /\ pc' = [pc EXCEPT ![c] = "waiting"]
    /\ close_connection' = [close_connection EXCEPT ![c] = TRUE]
    /\ UNCHANGED <<sem, req, res, log, raised, nreq, acq, rel, ncomp, dirc, lst>>

\* The client sends its request line.
ClientSend(c, p) ==
    /\ pc[c] \in {"waiting", "inside"}
    /\ req[c] = NoReq
    /\ req' = [req EXCEPT ![c] = p]
    /\ UNCHANGED <<sem, pc, res, close_connection, log, raised, nreq, acq, rel, ncomp, dirc, lst>>

\* Acquire without waiting for a free slot.
AcquireNoWait(c) ==
    /\ pc[c] = "waiting"
    /\ sem' = sem - 1
    /\ acq' = [acq EXCEPT ![c] = @ + 1]
    /\ pc' = [pc EXCEPT ![c] = "inside"]
    /\ UNCHANGED <<req, res, close_connection, log, raised, nreq, rel, ncomp, dirc, lst>>

\* Acquire that keeps the last slot spare.
AcquireSpareSlot(c) ==
    /\ pc[c] = "waiting"
    /\ sem > 1
    /\ sem' = sem - 1
    /\ acq' = [acq EXCEPT ![c] = @ + 1]
    /\ pc' = [pc EXCEPT ![c] = "inside"]
    /\ UNCHANGED <<req, res, close_connection, log, raised, nreq, rel, ncomp, dirc, lst>>

\* Semaphore.__enter__ (server.py:87): blocks while no slot is free.
Acquire(c) ==
    /\ pc[c] = "waiting"
    /\ sem > 0
    /\ sem' = sem - 1
    /\ acq' = [acq EXCEPT ![c] = @ + 1]
    /\ pc' = [pc EXCEPT ![c] = "inside"]
    /\ UNCHANGED <<req, res, close_connection, log, raised, nreq, rel, ncomp, dirc, lst>>

\* super().handle_one_request() (server.py:88): read the request line,
\* parse it (which leaves close_connection as the protocol version and the
\* Connection header decide) and run do_GET.
Handle(c, f, keepalive) ==
    /\ pc[c] = "inside"
    /\ req[c] # NoReq
    /\ res' = [res EXCEPT ![c] = WithPath(req[c], do_GET(req[c], f))]
    /\ req' = [req EXCEPT ![c] = NoReq]
    /\ nreq' = [nreq EXCEPT ![c] = @ + 1]
    /\ close_connection' = [close_connection EXCEPT ![c] = ~keepalive]
    /\ pc' = [pc EXCEPT ![c] = "handled"]
    /\ UNCHANGED <<sem, log, raised, acq, rel, ncomp, dirc, lst>>

ExitWith(c, released, closes) ==
    /\ pc[c] = "handled"
    /\ sem' = sem + released
    /\ rel' = [rel EXCEPT ![c] = @ + released]
    /\ log' = [log EXCEPT ![c] = IF res[c].exc = "disconnect" THEN "warning"
                                 ELSE IF res[c].exc = "error" THEN "error"
                                 ELSE @]
    /\ raised' = [raised EXCEPT ![c] = "none"]
    /\ close_connection' = [close_connection EXCEPT ![c] = closes \/ @]
    /\ ncomp' = [ncomp EXCEPT ![c] = @ + 1]
    /\ pc' = [pc EXCEPT ![c] = "exited"]
    /\ UNCHANGED <<req, res, nreq, acq, dirc, lst>>

\* Exit that releases the slot a second time in the finally clause.
ExitReleaseTwice(c) == ExitWith(c, 2, TRUE)

\* Exit of a handler that releases only after the with body returned
\* normally (acquire and release without a scope).
ExitLeak(c) == ExitWith(c, IF res[c].exc = "none" THEN 1 ELSE 0, TRUE)

\* Exit of a handler that never gives its slot back.
ExitKeepsSlot(c) == ExitWith(c, 0, TRUE)

\* Exit without the finally clause.
ExitNoFinally(c) == ExitWith(c, 1, FALSE)

\* Leaving handle_one_request (server.py:87-94): Semaphore.__exit__ releases
\* the slot, the except clauses log the exception that came out of the with
\* block, the finally clause marks the connection for closure.
Exit(c) ==
    /\ pc[c] = "handled"
    /\ sem' = sem + 1
    /\ rel' = [rel EXCEPT ![c] = @ + 1]
    /\ log' = [log EXCEPT ![c] = IF res[c].exc = "disconnect" THEN "warning"
                                 ELSE IF res[c].exc = "error" THEN "error"
                                 ELSE @]
    /\ raised' = [raised EXCEPT ![c] = "none"]
    /\ close_connection' = [close_connection EXCEPT ![c] = TRUE]
    /\ ncomp' = [ncomp EXCEPT ![c] = @ + 1]
    /\ pc' = [pc EXCEPT ![c] = "exited"]
    /\ UNCHANGED <<req, res, nreq, acq, dirc, lst>>

\* The loop of BaseHTTPRequestHandler.handle after handle_one_request
\* returned: another request on the connection unless it is marked for
\* closure, in which case the connection is torn down and its thread ends.
Finish(c) ==
    /\ pc[c] = "exited"
    /\ IF close_connection[c]
       THEN /\ pc' = [pc EXCEPT ![c] = "idle"]
            /\ req' = [req EXCEPT ![c] = NoReq]
            /\ res' = [res EXCEPT ![c] = NoRes]
            /\ log' = [log EXCEPT ![c] = "none"]
            /\ raised' = [raised EXCEPT ![c] = "none"]
            /\ nreq' = [nreq EXCEPT ![c] = 0]
            /\ acq' = [acq EXCEPT ![c] = 0]
            /\ rel' = [rel EXCEPT ![c] = 0]
            /\ ncomp' = [ncomp EXCEPT ![c] = 0]
       ELSE /\ pc' = [pc EXCEPT ![c] = "waiting"]
            /\ res' = [res EXCEPT ![c] = NoRes]
            /\ UNCHANGED <<req, log, raised, nreq, acq, rel, ncomp>>
    /\ UNCHANGED <<sem, close_connection, dirc, lst>>

----------------------------------------------------------------------------
(* Specifications. *)

\* The requests and faults the gate is exercised with.
GatePaths == { tcpstates, <<"nope">> }

GateFaults == { f \in Faults : f.errAt # "body" /\ f.brokenFrom \in {"body", "never"} }

Step(C, P, F, K) ==
    \E c \in C :
        \/ Accept(c)
        \/ \E p \in P : ClientSend(c, p)
        \/ Acquire(c)
        \/ \E f \in F, keepalive \in K : Handle(c, f, keepalive)
        \/ Exit(c)
        \/ Finish(c)

Next == Step(Conns, GatePaths, GateFaults, BOOLEAN)

Spec == Init /\ [][Next]_vars

NextReq == Step(ReqConns, RequestPaths, Faults, BOOLEAN)

ReqSpec == Init /\ [][NextReq]_vars

TypeOK ==
    /\ sem \in Int
    /\ pc \in [Conns -> {"idle", "waiting", "inside", "handled", "exited"}]
    /\ \A c \in Conns : res[c].route \in {"none", "Status", "NotFound", "Directory", "File"}

\* The requests and faults the liveness of the gate is checked with: the
\* status request, answered or cut off by the client.
LivePaths == { tcpstates }

LiveFaults == { f \in Faults : f.errAt = "none" /\ f.brokenFrom \in {"body", "never"} }

NextLive == Step(Conns, LivePaths, LiveFaults, {FALSE})

\* What a connection does without needing the gate: its client sends the
\* request, its thread handles it, leaves handle_one_request and finishes.
Progress(c) ==
    \/ \E p \in LivePaths : ClientSend(c, p)
    \/ \E f \in LiveFaults : Handle(c, f, FALSE)
    \/ Exit(c)
    \/ Finish(c)

\* The scheduling the liveness of the gate rests on: a connection that can
\* go on does so, and a thread that finds a free slot again and again gets
\* one in the end.
FairSpec ==
    /\ Init /\ [][NextLive]_vars
    /\ \A c \in Conns : SF_vars(Acquire(c)) /\ WF_vars(Progress(c))

\* What the thread of a connection does by itself once it holds a slot.
ThreadProgress(c) ==
    \/ \E f \in LiveFaults : Handle(c, f, FALSE)
    \/ Exit(c)
    \/ Finish(c)

\* The scheduling the server itself provides: its threads run and the gate
\* is fair; nothing is assumed of the clients.
ServerFairSpec ==
    /\ Init /\ [][NextLive]_vars
    /\ \A c \in Conns : SF_vars(Acquire(c)) /\ WF_vars(ThreadProgress(c))

----------------------------------------------------------------------------
(* Properties. *)

Holding(c) == acq[c] > rel[c]

InFlight(c) == pc[c] \in {"inside", "handled"}

Holders == {c \in Conns : Holding(c)}

Waiters == {c \in Conns : pc[c] = "waiting"}

Min(a, b) == IF a <= b THEN a ELSE b

Last(q) == q[Len(q)]

\* C1: the connections that acquired a slot of the one shared gate and have
\* not released it, among them every connection inside request handling,
\* never number more than the configured maximum.
GateBound ==
    /\ Cardinality(Holders) <= MAX_CONCURRENT_REQUESTS
    /\ \A c \in Conns : InFlight(c) => Holding(c)

GateBoundWitness ==
    /\ Cardinality(Holders) = MAX_CONCURRENT_REQUESTS
    /\ Waiters # {}
    /\ \A c \in Holders : pc[c] = "handled"

\* C2: the count of free slots stays between 0 and the maximum; it goes down
\* only by one from a positive value and up only by one from a value below
\* the maximum.
SlotRange ==
    /\ [](sem >= 0 /\ sem <= MAX_CONCURRENT_REQUESTS)
    /\ [][/\ sem' < sem => sem > 0 /\ sem' = sem - 1
          /\ sem' > sem => sem < MAX_CONCURRENT_REQUESTS /\ sem' = sem + 1]_vars

SlotRangeWitness ==
    /\ sem = MAX_CONCURRENT_REQUESTS
    /\ \E c \in Conns : pc[c] = "exited" /\ rel[c] = 1

\* C3: a request that acquired a slot releases it exactly once however its
\* handling ends, and when no request is in flight every slot is free.
NoLeak ==
    /\ \A c \in Conns :
        /\ rel[c] <= acq[c]
        /\ acq[c] <= rel[c] + 1
        /\ InFlight(c) => acq[c] = rel[c] + 1
        /\ pc[c] = "exited" => acq[c] = 1 /\ rel[c] = 1
    /\ (\A c \in Conns : ~InFlight(c)) => sem = MAX_CONCURRENT_REQUESTS

NoLeakWitness ==
    \E c \in Conns :
        /\ pc[c] = "exited"
        /\ res[c].exc = "disconnect"
        /\ res[c].route = "NotFound"
        /\ sem = MAX_CONCURRENT_REQUESTS

NoHoldBack ==
    /\ \A c \in Conns : pc[c] = "waiting" /\ sem > 0 => ENABLED Acquire(c)
    /\ ( /\ \A c \in Conns : pc[c] \in {"waiting", "inside", "handled"}
         /\ \A c \in Conns : ~ENABLED Acquire(c) )
       => /\ Cardinality(Holders) = Min(MAX_CONCURRENT_REQUESTS, NumConn)
          /\ Cardinality(Waiters) = NumConn - Min(MAX_CONCURRENT_REQUESTS, NumConn)

NoHoldBackWitness ==
    /\ \A c \in Conns : pc[c] \in {"waiting", "inside"} /\ rel[c] = 0
    /\ Cardinality(Holders) = MAX_CONCURRENT_REQUESTS
    /\ Cardinality(Waiters) = NumConn - MAX_CONCURRENT_REQUESTS
    /\ Waiters # {}

\* C6: the location the router classifies, lists or serves lies within the
\* serving directory, and a path that leads out of it is answered as missing.
StaysInBase ==
    \A c \in Conns :
        res[c].route # "none" =>
            /\ res[c].target # NoNode => Within(res[c].target)
            /\ res[c].served # NoNode => Within(res[c].served)
            /\ ( res[c].path # tcpstates /\ ~Within(Walk(base_path, res[c].path)) )
                  => res[c].route = "NotFound"

\* C7: the route of a request is decided by its path and the filesystem:
\* Status exactly for /tcpstates, otherwise NotFound (404), Directory or
\* File as nothing, a directory or a file is found; one route per request,
\* taken while the slot is held.
RouteFunction ==
    \A c \in Conns :
        LET r == res[c]
            at == Walk(base_path, r.path)
        IN  r.route # "none" =>
            /\ r.route \in {"Status", "NotFound", "Directory", "File"}
            /\ r.route = "Status" <=> r.path = tcpstates
            /\ r.path # tcpstates =>
                /\ r.route = "NotFound" <=> at = NoNode
                /\ r.route = "Directory" <=> at \in Dirs
                /\ r.route = "File" <=> at \in Files
            /\ r.route = "NotFound" => r.resp[1].code = 404
            /\ r.route = "Directory" /\ ~r.failed /\ r.exc = "none"
                  => r.resp = <<Attempt(200, "html", TRUE, TRUE, FALSE)>>
            /\ nreq[c] = 1 /\ acq[c] = 1
            /\ pc[c] = "handled" => Holding(c)

RouteFunctionWitness ==
    \E c \in Conns :
        /\ pc[c] = "handled"
        /\ res[c].path = <<"tcpstates", "x">>
        /\ res[c].route = "NotFound"

\* C8: when the client is gone while a response is written, no further
\* response is attempted and no 500 is started, a warning and no error is
\* logged, the slot is released and no exception leaves the handler.
SilentDisconnect ==
    \A c \in Conns :
        (pc[c] = "exited" /\ \E i \in DOMAIN res[c].resp : res[c].resp[i].lost) =>
            /\ \A i \in DOMAIN res[c].resp :
                  res[c].resp[i].lost => i = Len(res[c].resp)
            /\ \A i \in DOMAIN res[c].resp : res[c].resp[i].code # 500
            /\ log[c] = "warning"
            /\ rel[c] = acq[c]
            /\ raised[c] = "none"

\* C9 as stated: a failure other than a client disconnect ends in a 500
\* response "Server error: ..." and stays within its request.
ServerErrorReply ==
    \A c \in Conns :
        (pc[c] \in {"handled", "exited"} /\ res[c].failed
            /\ \A i \in DOMAIN res[c].resp : ~res[c].resp[i].lost) =>
            /\ res[c].resp # <<>>
            /\ Last(res[c].resp) = Attempt(500, "Server error", TRUE, TRUE, FALSE)
            /\ res[c].exc = "none"
            /\ pc[c] = "exited" => raised[c] = "none" /\ rel[c] = acq[c]

\* C9 as amended: a failure other than a client disconnect ends in a 500
\* response, "Server error: ..." or, for a failure raised inside the
\* directory listing, "Directory listing failed: ...", and stays within its
\* request: no exception leaves the handler and the slot is released.
ErrorReply ==
    \A c \in Conns :
        (pc[c] \in {"handled", "exited"} /\ res[c].failed
            /\ \A i \in DOMAIN res[c].resp : ~res[c].resp[i].lost) =>
            /\ res[c].resp # <<>>
            /\ \/ Last(res[c].resp) = Attempt(500, "Server error", TRUE, TRUE, FALSE)
               \/ /\ res[c].route = "Directory"
                  /\ Last(res[c].resp) =
                        Attempt(500, "Directory listing failed", TRUE, TRUE, FALSE)
            /\ res[c].exc = "none"
            /\ pc[c] = "exited" => raised[c] = "none" /\ rel[c] = acq[c]

ErrorReplyWitness ==
    \E c \in Conns :
        /\ pc[c] = "exited"
        /\ res[c].failed
        /\ res[c].route = "Directory"
        /\ res[c].resp = <<Attempt(500, "Directory listing failed", TRUE, TRUE, FALSE)>>
        /\ sem = MAX_CONCURRENT_REQUESTS

\* C10: a connection never reads a second request; the request it read is
\* completed exactly once, in every branch, and completion marks the
\* connection for closure.
OneRequest ==
    \A c \in Conns :
        /\ nreq[c] <= 1
        /\ ncomp[c] <= nreq[c]
        /\ pc[c] = "handled" => nreq[c] = 1 /\ ncomp[c] = 0
        /\ pc[c] = "exited" => nreq[c] = 1 /\ ncomp[c] = 1 /\ close_connection[c]
        /\ pc[c] \in {"waiting", "inside"} => nreq[c] = 0

OneRequestWitness ==
    \E c \in Conns :
        /\ pc[c] = "exited"
        /\ ncomp[c] = 1
        /\ res[c].route = "File"
        /\ res[c].exc = "none"

\* C11: handling /tcpstates makes no filesystem call and resolves, lists or
\* serves nothing of the filesystem, whatever the serving directory holds
\* (here a file named tcpstates); every other route starts with one.
StatusNoFilesystem ==
    \A c \in Conns :
        /\ res[c].path = tcpstates =>
              /\ res[c].fsops = <<>>
              /\ res[c].target = NoNode
              /\ res[c].served = NoNode
        /\ res[c].route \in {"NotFound", "Directory", "File"} => res[c].fsops # <<>>

StatusNoFilesystemWitness ==
    \E c \in Conns :
        /\ pc[c] = "exited"
        /\ res[c].path = tcpstates
        /\ res[c].route = "Status"
        /\ res[c].resp = <<Attempt(200, "json", TRUE, TRUE, FALSE)>>
        /\ Append(base_path, "tcpstates") \in Files

\* C16: a connection that holds a slot completes and releases it whatever
\* its client does, so no slot is held for ever.
SlotEventuallyFreed == \A c \in Conns : Holding(c) ~> ~Holding(c)

\* C17: at most one status line reaches the client for a request.
OneResponse ==
    \A c \in Conns :
        Cardinality({i \in DOMAIN res[c].resp : res[c].resp[i].hdr}) <= 1


----------------------------------------------------------------------------
(* The directory listing. *)

\* The directory a request path leads to is the base directory.
DesignatesBase(p) == Walk(<<>>, Join(p)) = base_path

Abs(x) == IF x < 0 THEN -x ELSE x

HasParentLink == lst.items # <<>> /\ Head(lst.items) = ParentItem

\* The entries after the parent link.
Kids == IF HasParentLink THEN Tail(lst.items) ELSE lst.items

\* The child an entry stands for: a directory's entry carries a trailing "/".
ChildName(it) ==
    IF it.kind = "Directory" THEN SubSeq(it.name, 1, Len(it.name) - 1) ELSE it.name

\* whole.frac is size/1024 to the nearest tenth, a tie going to the even one.
NearestTenth(l, size) ==
    LET t == 10 * l.whole + l.frac
        d == Abs(10 * size - 1024 * t)
    IN /\ l.kind = "kb" /\ l.places = 1 /\ l.frac \in 0..9
       /\ 2 * d <= 1024
       /\ (2 * d = 1024 => t % 2 = 0)

\* C12: a listing starts with the parent link "../" of size "-" exactly when
\* the directory it renders is not the base directory; no path that leads to
\* the base directory gets one.
ParentLinkIffNotBase ==
    lst.stage \in {"listing", "done"} /\ ~lst.failed =>
        (HasParentLink <=> ~DesignatesBase(lst.path))

ListingOrder ==
    /\ lst.stage \in {"listing", "done"} =>
          /\ \A i, j \in DOMAIN Kids : i < j => NameLess(ChildName(Kids[i]), ChildName(Kids[j]))
          /\ \A i \in DOMAIN Kids :
                /\ ChildName(Kids[i]) \in DOMAIN dirc
                /\ Kids[i].kind = (IF dirc[ChildName(Kids[i])].kind = "dir"
                                   THEN "Directory" ELSE "File")
    /\ lst.stage = "done" /\ ~lst.failed =>
          /\ Len(Kids) = Cardinality(DOMAIN dirc)
          /\ {ChildName(Kids[i]) : i \in DOMAIN Kids} = DOMAIN dirc

ListingOrderWitness ==
    /\ lst.stage = "done" /\ ~lst.failed
    /\ Len(Kids) = 2
    /\ Kids[1].kind = "File" /\ Kids[1].name = <<66>>
    /\ Kids[2].kind = "Directory" /\ Kids[2].name = <<97, 47>>

\* C15: when a filesystem read fails while the listing is built, the request
\* ends with the one response 500 and nothing of a 200 listing is sent.
ListingFailure ==
    lst.failed =>
        /\ lst.stage = "done"
        /\ lst.resp = <<Attempt(500, "Directory listing failed", TRUE, TRUE, FALSE)>>
        /\ \A i \in DOMAIN lst.resp : lst.resp[i].code # 200

ListingFailureWitness ==
    /\ lst.failed
    /\ lst.gone # {}
    /\ Kids # <<>>
    /\ lst.todo # <<>> /\ Head(lst.todo) \in lst.gone

\* C18: the Content-Length of a listing equals the number of body bytes
\* written, whatever the names in it.
ContentLengthExact ==
    lst.stage = "done" /\ ~lst.failed => lst.clen = lst.blen

============================================================================
